---- MODULE Spec2Model ----
(***************************************************************************)
(* FreeSurferConverter (preprocessing/freesurfer_to_obj.py): the three     *)
(* batch conversions of the converter, each as a state machine over its    *)
(* worklist.                                                               *)
(*   SpecRegions      convert_parcellated_regions (one hemisphere)         *)
(*   SpecSubcortical  convert_subcortical_segmentation                     *)
(*   SpecSurfaces     convert_cortical_surfaces                            *)
(***************************************************************************)
EXTENDS Integers, Sequences, FiniteSets, TLC

\* Number of vertices of the dense source mesh.
NumVerts == 6

VARIABLES
    \* convert_parcellated_regions
    faces,      \* read_geometry: the source triangles, zero-based vertex indices
    labels,     \* read_annot: per-vertex label index (-1: not annotated)
    names,      \* read_annot: the name table, names[i+1] is the name of index i
    idx,        \* position of the region loop (zero-based, as enumerate)
    out,        \* per label index: what the loop did and what it wrote
    rpc,        \* "start", "loop", "done", "returned", "raised" ("idle": not called)
    \* convert_subcortical_segmentation
    asegPresent,        \* mri/aseg.mgz exists
    brainmaskPresent,   \* mri/brainmask.mgz exists
    aseg_data,          \* the label volume, per voxel
    brainmask_data,     \* the validity volume, per voxel
    mode,               \* the mode argument
    pos,                \* position of the structure loop in the worklist
    outcome,            \* per worklist position: how the iteration ended
    handed,             \* per worklist position: the mask given to the extractor
    writes,             \* the exports done, in order: <<label_id, file stem>>
    spc,                \* "start", "loop", "done", "returned", "raised" ("idle")
    \* convert_cortical_surfaces
    cidx,       \* position of the surface loop
    souts,      \* per surface: how the iteration ended
    cpc         \* "loop", "done", "raised" ("idle")

rvars == <<faces, labels, names, idx, out, rpc>>
svars == <<asegPresent, brainmaskPresent, aseg_data, brainmask_data, mode, pos,
           outcome, handed, writes, spc>>
cvars == <<cidx, souts, cpc>>
vars == <<rvars, svars, cvars>>

Range(s) == {s[k] : k \in 1 .. Len(s)}

RECURSIVE SortedSeq(_)
\* The elements of a finite set of integers in ascending order.
SortedSeq(S) ==
    IF S = {} THEN <<>>
    ELSE LET m == CHOOSE x \in S : \A y \in S : x <= y
         IN  <<m>> \o SortedSeq(S \ {m})

(***************************************************************************)
(* Inputs of the region splitter.                                          *)
(***************************************************************************)
Verts == 0 .. NumVerts - 1

\* The k-th triangle of a triangle strip over the vertices, with the
\* alternating corner order that keeps the strip's winding consistent.
StripTriangle(k) ==
    IF k % 2 = 0 THEN <<k, k + 1, k + 2>> ELSE <<k + 1, k, k + 2>>

\* Source meshes: any selection of the strip's triangles, in strip order.
SourceMeshes ==
    {[j \in 1 .. Cardinality(S) |-> StripTriangle(SortedSeq(S)[j])] :
        S \in SUBSET (0 .. NumVerts - 3)}

\* Name tables of an annotation.
NameTables ==
    { <<"insula", "Cuneus">>,
      <<"Unknown", "insula">>,
      <<"Cuneus", "CorpusCallosum">>,
      <<"corpuscallosum", "unknown">> }

NoOutput(st) ==
    [status |-> st, region_vertex_indices |-> <<>>, vertex_mapping |-> <<>>,
     region_faces |-> <<>>, remapped_faces |-> <<>>, file_faces |-> <<>>]

RegionsInputs ==
    /\ faces \in SourceMeshes
    /\ names \in NameTables
    /\ labels \in [Verts -> -1 .. Len(names) - 1]
    /\ idx = 0
    /\ out = [i \in 0 .. Len(names) - 1 |-> NoOutput("pending")]
    /\ rpc = "start"

(***************************************************************************)
(* convert_parcellated_regions                                             *)
(***************************************************************************)
\* Lower without the case folding.
Lower_Identity(s) == s

\* str.lower() on the names of the tables.
Lower(s) ==
    CASE s = "Unknown" -> "unknown"
      [] s = "CorpusCallosum" -> "corpuscallosum"
      [] s = "Cuneus" -> "cuneus"
      [] OTHER -> s

region_name_str(i) == names[i + 1]

\* region_name_str.lower() in ['unknown', 'corpuscallosum']
IsExcluded(s) == Lower(s) \in {"unknown", "corpuscallosum"}

\* region_mask with the label compared to the next table index.
region_mask_OffByOne(i) == {v \in Verts : labels[v] = i + 1}

\* region_mask with >= in place of ==.
region_mask_AtLeast(i) == {v \in Verts : labels[v] >= i}

\* region_mask = (labels == idx)
region_mask(i) == {v \in Verts : labels[v] = i}

\* np.where(region_mask)[0]: the selected indices, ascending
region_vertex_indices(i) == SortedSeq(region_mask(i))

\* np.isin(faces, region_vertex_indices).all(axis=1), for one face
face_mask(face, rvi) == \A c \in 1 .. 3 : face[c] \in Range(rvi)

\* faces[face_mask]
region_faces(rvi) == SelectSeq(faces, LAMBDA f : face_mask(f, rvi))

\* vertex_mapping with the local indices counted from 1.
vertex_mapping_OneBased(rvi) ==
    [old \in Range(rvi) |-> CHOOSE k \in 1 .. Len(rvi) : rvi[k] = old]

\* {old_idx: new_idx for new_idx, old_idx in enumerate(region_vertex_indices)}
vertex_mapping(rvi) ==
    [old \in Range(rvi) |-> (CHOOSE k \in 1 .. Len(rvi) : rvi[k] = old) - 1]

\* [[vertex_mapping[f] for f in face] for face in region_faces]
remapped_faces(rf, vm) ==
    [j \in 1 .. Len(rf) |-> [c \in 1 .. 3 |-> vm[rf[j][c]]]]

\* the f lines: face[0]+1, face[1]+1, face[2]+1
file_faces(rm) ==
    [j \in 1 .. Len(rm) |-> [c \in 1 .. 3 |-> rm[j][c] + 1]]

\* One pass of the loop body for label index i; sink_ok: open() and the
\* writes succeed.
RegionResult(i, sink_ok) ==
    LET rvi == region_vertex_indices(i)
        rf  == region_faces(rvi)
        vm  == vertex_mapping(rvi)
        rm  == remapped_faces(rf, vm)
    IN  IF IsExcluded(region_name_str(i)) THEN NoOutput("excluded")
        ELSE IF Len(rvi) = 0 THEN NoOutput("no_vertices")
        ELSE IF Len(rf) = 0 THEN NoOutput("no_faces")
        ELSE IF ~sink_ok THEN NoOutput("rejected")
        ELSE [status |-> "written", region_vertex_indices |-> rvi,
              vertex_mapping |-> vm, region_faces |-> rf, remapped_faces |-> rm,
              file_faces |-> file_faces(rm)]

\* _get_surface_file raises FileNotFoundError: the call ends with it.
RegionsSurfaceMissing ==
    /\ rpc = "start"
    /\ rpc' = "raised"
    /\ UNCHANGED <<faces, labels, names, idx, out, svars, cvars>>

\* The annotation file does not exist: warning and return.
RegionsAnnotMissing ==
    /\ rpc = "start"
    /\ rpc' = "returned"
    /\ UNCHANGED <<faces, labels, names, idx, out, svars, cvars>>

\* Geometry and annotation are read, the output directory is made.
RegionsLoad ==
    /\ rpc = "start"
    /\ rpc' = "loop"
    /\ UNCHANGED <<faces, labels, names, idx, out, svars, cvars>>

\* One iteration of "for idx, region_name in enumerate(names)".
ConvertRegion ==
    /\ rpc = "loop"
    /\ idx < Len(names)
    /\ \E sink_ok \in BOOLEAN :
        LET res == RegionResult(idx, sink_ok)
        IN  /\ out' = [out EXCEPT ![idx] = res]
            /\ IF res.status = "rejected"
               THEN rpc' = "raised" /\ idx' = idx
               ELSE rpc' = "loop" /\ idx' = idx + 1
    /\ UNCHANGED <<faces, labels, names, svars, cvars>>

\* The name table is exhausted.
RegionsDone ==
    /\ rpc = "loop"
    /\ idx = Len(names)
    /\ rpc' = "done"
    /\ UNCHANGED <<faces, labels, names, idx, out, svars, cvars>>

RegionsIdle ==
    /\ faces = <<>>
    /\ names = <<>>
    /\ labels = [v \in Verts |-> -1]
    /\ idx = 0
    /\ out = <<>>
    /\ rpc = "idle"

NextRegions ==
    \/ RegionsSurfaceMissing
    \/ RegionsAnnotMissing
    \/ RegionsLoad
    \/ ConvertRegion
    \/ RegionsDone

(***************************************************************************)
(* convert_subcortical_segmentation                                        *)
(***************************************************************************)
\* Number of voxels of the two volumes (same grid).
NumVoxels == 2

Voxels == 1 .. NumVoxels

\* Label values a voxel of aseg.mgz takes here: background and three
\* labels of the table.
VoxelLabels == {0, 43, 48, 49}

\* Values a voxel of brainmask.mgz takes (get_fdata gives floats).
BrainmaskValues == {-1, 0, 1}

Modes == {"marching_cubes", "dual_contouring", "poisson"}

\* The entries of the subcortical_structures literal, in source order.
StructureTable ==
    << <<4, "Left-Lateral-Ventricle">>,
       <<5, "Left-Inf-Lat-Vent">>,
       <<7, "Left-Cerebellum-White-Matter">>,
       <<8, "Left-Cerebellum-Cortex">>,
       <<10, "Left-Thalamus">>,
       <<11, "Left-Caudate">>,
       <<12, "Left-Putamen">>,
       <<13, "Left-Pallidum">>,
       <<17, "Left-Hippocampus">>,
       <<18, "Left-Amygdala">>,
       <<26, "Left-Accumbens-area">>,
       <<49, "Right-Thalamus">>,
       <<43, "Right-Lateral-Ventricle">>,
       <<44, "Right-Inf-Lat-Vent">>,
       <<46, "Right-Cerebellum-White-Matter">>,
       <<47, "Right-Cerebellum-Cortex">>,
       <<48, "Right-Thalamus">>,
       <<50, "Right-Caudate">>,
       <<51, "Right-Putamen">>,
       <<52, "Right-Pallidum">>,
       <<53, "Right-Hippocampus">>,
       <<54, "Right-Amygdala">>,
       <<58, "Right-Accumbens-area">>,
       <<16, "Brain-Stem">>,
       <<28, "CSF">>,
       <<30, "3rd-Ventricle">>,
       <<31, "4th-Ventricle">>,
       <<43, "WM-hypointensities">>,
       <<44, "Left-VentralDC">>,
       <<45, "Right-VentralDC">>,
       <<60, "Optic-Chiasm">>,
       <<251, "CC_Posterior">>,
       <<252, "CC_Mid_Posterior">>,
       <<253, "CC_Central">>,
       <<254, "CC_Mid_Anterior">>,
       <<255, "CC_Anterior">> >>

\* d[k] = v on a dict kept as its item sequence: a key already present
\* keeps its position and takes the new value, a new key goes last.
DictSetItem(d, k, v) ==
    IF \E p \in 1 .. Len(d) : d[p][1] = k
    THEN [p \in 1 .. Len(d) |-> IF d[p][1] = k THEN <<k, v>> ELSE d[p]]
    ELSE Append(d, <<k, v>>)

RECURSIVE DictDisplay(_, _)
\* The dict a display {k1: v1, k2: v2, ...} evaluates to: the entries are
\* stored left to right.
DictDisplay(entries, n) ==
    IF n = 0 THEN <<>>
    ELSE DictSetItem(DictDisplay(entries, n - 1), entries[n][1], entries[n][2])

\* subcortical_structures.items(): the worklist of the structure loop.
subcortical_structures == DictDisplay(StructureTable, Len(StructureTable))

NoMask == [given |-> FALSE, mask |-> {}]

SubcorticalInputs ==
    /\ asegPresent \in BOOLEAN
    /\ brainmaskPresent \in BOOLEAN
    /\ IF asegPresent
       THEN aseg_data \in [Voxels -> VoxelLabels]
       ELSE aseg_data = [v \in Voxels |-> 0]
    /\ IF brainmaskPresent
       THEN brainmask_data \in [Voxels -> BrainmaskValues]
       ELSE brainmask_data = [v \in Voxels |-> 0]
    /\ mode \in Modes
    /\ pos = 1
    /\ outcome = [p \in 1 .. Len(subcortical_structures) |-> "pending"]
    /\ handed = [p \in 1 .. Len(subcortical_structures) |-> NoMask]
    /\ writes = <<>>
    /\ spc = "start"

SubcorticalIdle ==
    /\ asegPresent = FALSE
    /\ brainmaskPresent = FALSE
    /\ aseg_data = [v \in Voxels |-> 0]
    /\ brainmask_data = [v \in Voxels |-> 0]
    /\ mode = "marching_cubes"
    /\ pos = 1
    /\ outcome = <<>>
    /\ handed = <<>>
    /\ writes = <<>>
    /\ spc = "idle"

\* mask = (aseg_data == label_id)
LabelMask(label_id) == {v \in Voxels : aseg_data[v] = label_id}

\* np.logical_and on masks
logical_and(a, b) == a \cap b

\* The truth value numpy gives a number used as a condition.
Truthy(x) == x # 0

\* NoisyStructureMask without the overwriting second assignment.
NoisyStructureMask_Intersection(mask) ==
    logical_and(mask, {v \in Voxels : brainmask_data[v] > 0})

\* The two assignments of the WM-hypointensities case: the second one
\* overwrites the first with np.where(brainmask_data, 1, 0).
NoisyStructureMask(mask) ==
    LET intersected == logical_and(mask, {v \in Voxels : brainmask_data[v] > 0})
        replaced == {v \in Voxels : Truthy(brainmask_data[v])}
    IN  replaced

\* Extractor with marching cubes as the fallback of the else branch.
Extractor_FallbackMarchingCubes(m) ==
    CASE m = "dual_contouring" -> "_dual_contouring_mesh"
      [] OTHER -> "_marching_cubes_mesh"

\* The branch of "if mode == ... elif mode == ... else".
Extractor(m) ==
    CASE m = "marching_cubes" -> "_marching_cubes_mesh"
      [] m = "dual_contouring" -> "_dual_contouring_mesh"
      [] OTHER -> "none"

\* Whether _marching_cubes_mesh / _dual_contouring_mesh raises on a mask:
\* measure.marching_cubes(mask, level=0.5) raises ValueError when 0.5 is
\* outside the data range (all voxels false, or all true); env_fails is any
\* other failure of the extractor or the smoothing.  A failed decimation is
\* caught inside and the mesh is kept.
ExtractorRaises(mask, env_fails) ==
    mask = {} \/ mask = Voxels \/ env_fails

\* aseg.mgz does not exist: warning and return.
SubcorticalAsegMissing ==
    /\ spc = "start"
    /\ ~asegPresent
    /\ spc' = "returned"
    /\ UNCHANGED <<asegPresent, brainmaskPresent, aseg_data, brainmask_data,
                   mode, pos, outcome, handed, writes, rvars, cvars>>

\* brainmask.mgz does not exist: FileNotFoundError leaves the call.
SubcorticalBrainmaskMissing ==
    /\ spc = "start"
    /\ asegPresent
    /\ ~brainmaskPresent
    /\ spc' = "raised"
    /\ UNCHANGED <<asegPresent, brainmaskPresent, aseg_data, brainmask_data,
                   mode, pos, outcome, handed, writes, rvars, cvars>>

\* Both volumes are loaded, the output directory is made.
SubcorticalLoad ==
    /\ spc = "start"
    /\ asegPresent
    /\ brainmaskPresent
    /\ spc' = "loop"
    /\ UNCHANGED <<asegPresent, brainmaskPresent, aseg_data, brainmask_data,
                   mode, pos, outcome, handed, writes, rvars, cvars>>

\* One iteration of "for label_id, structure_name in
\* subcortical_structures.items()".
ConvertStructure ==
    /\ spc = "loop"
    /\ pos <= Len(subcortical_structures)
    /\ \E env_fails \in BOOLEAN, export_ok \in BOOLEAN :
        LET label_id == subcortical_structures[pos][1]
            structure_name == subcortical_structures[pos][2]
            mask0 == LabelMask(label_id)
            mask == IF structure_name = "WM-hypointensities"
                    THEN NoisyStructureMask(mask0) ELSE mask0
        IN  IF mask0 = {}
            THEN /\ outcome' = [outcome EXCEPT ![pos] = "skipped"]
                 /\ pos' = pos + 1
                 /\ UNCHANGED <<handed, writes, spc>>
            ELSE IF Extractor(mode) = "none"
            THEN /\ outcome' = [outcome EXCEPT ![pos] = "invalid_mode"]
                 /\ pos' = pos + 1
                 /\ UNCHANGED <<handed, writes, spc>>
            ELSE IF ExtractorRaises(mask, env_fails)
            THEN /\ outcome' = [outcome EXCEPT ![pos] = "raised"]
                 /\ handed' = [handed EXCEPT ![pos] = [given |-> TRUE, mask |-> mask]]
                 /\ spc' = "raised"
                 /\ UNCHANGED <<pos, writes>>
            ELSE /\ handed' = [handed EXCEPT ![pos] = [given |-> TRUE, mask |-> mask]]
                 /\ pos' = pos + 1
                 /\ spc' = spc
                 /\ IF export_ok
                    THEN /\ outcome' = [outcome EXCEPT ![pos] = "written"]
                         /\ writes' = Append(writes, <<label_id, structure_name>>)
                    ELSE /\ outcome' = [outcome EXCEPT ![pos] = "export_failed"]
                         /\ writes' = writes
    /\ UNCHANGED <<asegPresent, brainmaskPresent, aseg_data, brainmask_data,
                   mode, rvars, cvars>>

\* The worklist is exhausted.
SubcorticalDone ==
    /\ spc = "loop"
    /\ pos = Len(subcortical_structures) + 1
    /\ spc' = "done"
    /\ UNCHANGED <<asegPresent, brainmaskPresent, aseg_data, brainmask_data,
                   mode, pos, outcome, handed, writes, rvars, cvars>>

NextSubcortical ==
    \/ SubcorticalAsegMissing
    \/ SubcorticalBrainmaskMissing
    \/ SubcorticalLoad
    \/ ConvertStructure
    \/ SubcorticalDone

(***************************************************************************)
(* convert_cortical_surfaces                                               *)
(***************************************************************************)
\* The surfaces list: <<surf_name, obj_name, '.pial' occurs in surf_name>>.
surfaces ==
    << <<"lh.pial", "lh_pial.obj", TRUE>>,
       <<"rh.pial", "rh_pial.obj", TRUE>>,
       <<"lh.white", "lh_white.obj", FALSE>>,
       <<"rh.white", "rh_white.obj", FALSE>>,
       <<"lh.inflated", "lh_inflated.obj", FALSE>>,
       <<"rh.inflated", "rh_inflated.obj", FALSE>> >>

\* What exists() does on a path: TRUE, FALSE, or an OSError.
StatResults == {"present", "absent", "oserror"}

\* How convert_surface_to_obj ends: it returns, or it re-raises what
\* read_geometry, open() or a write raised.
ConvertResults == {"ok", "FileNotFoundError", "OtherError"}

SurfacesInit ==
    /\ cidx = 1
    /\ souts = [i \in 1 .. Len(surfaces) |-> "pending"]
    /\ cpc = "loop"

SurfacesIdle ==
    /\ cidx = 1
    /\ souts = <<>>
    /\ cpc = "idle"

\* _get_surface_file: "found", or the exception that leaves it.  stat is
\* the result of exists() on the surface file, stat_t1 on the .pial.T1
\* file.  After an OSError the name is rewritten with
\* replace('.pial', '.pial.T1'), which leaves a name without '.pial' as it
\* is, so the same path is tested again.
get_surface_file(has_pial, stat, stat_t1) ==
    LET second == IF stat = "oserror" /\ has_pial THEN stat_t1 ELSE stat
    IN  CASE second = "present" -> "found"
          [] second = "absent" -> "FileNotFoundError"
          [] OTHER -> "OtherError"

\* What the try / except FileNotFoundError of the loop body makes of one
\* surface: the iteration's outcome, or "abort" when the exception is not
\* caught.
SurfaceOutcome(found, conv) ==
    IF found = "FileNotFoundError" THEN "skipped"
    ELSE IF found = "OtherError" THEN "abort"
    ELSE IF conv = "ok" THEN "written"
    ELSE IF conv = "FileNotFoundError" THEN "skipped"
    ELSE "abort"

\* One iteration of "for surf_name, obj_name in surfaces".
ConvertSurface ==
    /\ cpc = "loop"
    /\ cidx <= Len(surfaces)
    /\ \E stat \in StatResults, stat_t1 \in StatResults, conv \in ConvertResults :
        LET res == SurfaceOutcome(
                       get_surface_file(surfaces[cidx][3], stat, stat_t1), conv)
        IN  IF res = "abort"
            THEN /\ souts' = [souts EXCEPT ![cidx] = "raised"]
                 /\ cpc' = "raised"
                 /\ cidx' = cidx
            ELSE /\ souts' = [souts EXCEPT ![cidx] = res]
                 /\ cpc' = "loop"
                 /\ cidx' = cidx + 1
    /\ UNCHANGED <<rvars, svars>>

\* The list is exhausted.
SurfacesDone ==
    /\ cpc = "loop"
    /\ cidx = Len(surfaces) + 1
    /\ cpc' = "done"
    /\ UNCHANGED <<cidx, souts, rvars, svars>>

NextSurfaces ==
    \/ ConvertSurface
    \/ SurfacesDone

(***************************************************************************)
(* The specifications: one call of one conversion, the other two idle.     *)
(***************************************************************************)
InitRegions == RegionsInputs /\ SubcorticalIdle /\ SurfacesIdle

InitSubcortical == RegionsIdle /\ SubcorticalInputs /\ SurfacesIdle

InitSurfaces == RegionsIdle /\ SubcorticalIdle /\ SurfacesInit

SpecRegions == InitRegions /\ [][NextRegions]_vars

SpecSubcortical == InitSubcortical /\ [][NextSubcortical]_vars

SpecSurfaces == InitSurfaces /\ [][NextSurfaces]_vars

(***************************************************************************)
(* Region splitter: the emitted regions.                                   *)
(***************************************************************************)
\* C1: for every emitted region and every triangle of the source mesh, the
\* triangle is in the region's output iff all three of its corners carry
\* the region's label index; the output holds source triangles only, as
\* many as qualify; a triangle with corners of different labels is in no
\* region's output.
C1_StrictContainment ==
    \A i \in DOMAIN out : out[i].status = "written" =>
        /\ \A j \in 1 .. Len(faces) :
               (faces[j] \in Range(out[i].region_faces))
                   <=> (\A c \in 1 .. 3 : labels[faces[j][c]] = i)
        /\ Range(out[i].region_faces) \subseteq Range(faces)
        /\ Len(out[i].region_faces) =
               Cardinality({j \in 1 .. Len(faces) :
                               \A c \in 1 .. 3 : labels[faces[j][c]] = i})
        /\ \A j \in 1 .. Len(faces) :
               (\E c, d \in 1 .. 3 : labels[faces[j][c]] # labels[faces[j][d]])
                   => faces[j] \notin Range(out[i].region_faces)

\* A region was emitted while the source mesh holds a triangle that has a
\* corner of that region and a corner of another label.
C1_Witness ==
    \E i \in DOMAIN out :
        /\ out[i].status = "written"
        /\ \E j \in 1 .. Len(faces) : \E c, d \in 1 .. 3 :
               labels[faces[j][c]] = i /\ labels[faces[j][d]] # i

\* C2: across the regions emitted by one call, no source triangle is in
\* the outputs of two regions, no source vertex is in the vertex lists of
\* two regions, and the vertex counts of the emitted regions sum to at most
\* the source vertex count.
C2_RegionsDisjoint ==
    LET W == {i \in DOMAIN out : out[i].status = "written"}
    IN  /\ \A i, j \in W : i # j =>
               /\ Range(out[i].region_faces) \cap Range(out[j].region_faces) = {}
               /\ Range(out[i].region_vertex_indices)
                      \cap Range(out[j].region_vertex_indices) = {}
        /\ Cardinality(UNION {{<<i, k>> :
                                  k \in 1 .. Len(out[i].region_vertex_indices)} :
                              i \in W}) <= NumVerts

\* The call ended with two regions emitted.
C2_Witness ==
    /\ rpc = "done"
    /\ \E i, j \in DOMAIN out :
           i # j /\ out[i].status = "written" /\ out[j].status = "written"

\* C3: for every emitted region with n selected vertices, the remap sends
\* the k-th selected vertex to local index k (counted from 0), remapped
\* indices are in [0, n), written indices in [1, n], and a written index
\* minus 1, taken back through the remap, is the global vertex of that
\* corner of the source triangle, which carries the region's label.
C3_RemapRoundTrip ==
    \A i \in DOMAIN out : out[i].status = "written" =>
        LET rvi == out[i].region_vertex_indices
            vm == out[i].vertex_mapping
            n == Len(rvi)
        IN  /\ DOMAIN vm = Range(rvi)
            /\ \A k \in 1 .. n : vm[rvi[k]] = k - 1
            /\ Len(out[i].remapped_faces) = Len(out[i].region_faces)
            /\ Len(out[i].file_faces) = Len(out[i].region_faces)
            /\ \A j \in 1 .. Len(out[i].region_faces) : \A c \in 1 .. 3 :
                   /\ out[i].remapped_faces[j][c] \in 0 .. n - 1
                   /\ out[i].file_faces[j][c] \in 1 .. n
                   /\ \E v \in DOMAIN vm :
                          /\ vm[v] = out[i].file_faces[j][c] - 1
                          /\ v = out[i].region_faces[j][c]
                          /\ labels[v] = i
                   /\ \A v \in DOMAIN vm :
                          vm[v] = out[i].file_faces[j][c] - 1
                              => v = out[i].region_faces[j][c]

\* A region was emitted whose selected vertices are not an initial run of
\* the source vertices, so that local and global indices differ.
C3_Witness ==
    \E i \in DOMAIN out :
        /\ out[i].status = "written"
        /\ \E j \in 1 .. Len(out[i].region_faces) : \E c \in 1 .. 3 :
               out[i].remapped_faces[j][c] # out[i].region_faces[j][c]

\* C4: a file is written for a label index of the name table iff the name,
\* compared without case, is neither "unknown" nor "corpuscallosum", a
\* vertex carries the index, and a triangle has all three corners in that
\* vertex set: only then is one written, and once the loop has come to
\* such an index it wrote the file unless the sink refused it; at the end of
\* the loop the files are exactly those; a written file holds a triangle.
C4_WrittenIffEligible ==
    LET Eligible(i) ==
            /\ names[i + 1] \notin
                   {"unknown", "Unknown", "corpuscallosum", "CorpusCallosum"}
            /\ \E v \in Verts : labels[v] = i
            /\ \E j \in 1 .. Len(faces) :
                   \A c \in 1 .. 3 : labels[faces[j][c]] = i
    IN  /\ \A i \in DOMAIN out :
               /\ out[i].status = "written" =>
                      Eligible(i) /\ Len(out[i].file_faces) >= 1
               /\ (out[i].status # "pending" /\ Eligible(i)) =>
                      out[i].status \in {"written", "rejected"}
        /\ rpc = "done" =>
               \A i \in DOMAIN out : out[i].status = "written" <=> Eligible(i)

\* The loop ended having written one region and passed over a region whose
\* name is excluded only once its case is folded, although that region has
\* a triangle of its own.
C4_Witness ==
    /\ rpc = "done"
    /\ \E i, j \in DOMAIN out :
           /\ out[i].status = "written"
           /\ out[j].status = "excluded"
           /\ names[j + 1] \in {"Unknown", "CorpusCallosum"}
           /\ \E f \in 1 .. Len(faces) :
                  \A c \in 1 .. 3 : labels[faces[f][c]] = j

(***************************************************************************)
(* Batch loops and the subcortical worklist.                               *)
(***************************************************************************)
\* C5: in each batch loop a failure of one item never aborts the batch:
\* when a call that entered its loop has ended, every item of its worklist
\* has been processed.
C5_FailureNeverAbortsBatch ==
    /\ cpc \in {"done", "raised"} =>
           \A i \in DOMAIN souts : souts[i] \in {"written", "skipped"}
    /\ (rpc = "done" \/ \E i \in DOMAIN out : out[i].status = "rejected") =>
           \A i \in DOMAIN out :
               out[i].status \in {"written", "excluded", "no_vertices", "no_faces"}
    /\ (spc = "done" \/ \E p \in DOMAIN outcome : outcome[p] = "raised") =>
           \A p \in DOMAIN outcome :
               outcome[p] \in {"written", "skipped", "invalid_mode", "export_failed"}

\* C6: with brainmask.mgz absent and aseg.mgz present, only
\* WM-hypointensities fails: once the call has ended no exception has left
\* it and every other structure with voxels in the label volume has been
\* written.
C6_MissingBrainmaskFailsOnlyNoisyStructure ==
    (asegPresent /\ ~brainmaskPresent /\ spc \in {"done", "returned", "raised"}) =>
        /\ spc = "done"
        /\ \A p \in DOMAIN outcome :
               (/\ subcortical_structures[p][2] # "WM-hypointensities"
                /\ \E v \in Voxels : aseg_data[v] = subcortical_structures[p][1])
                   => outcome[p] = "written"

\* C7: a structure whose mask has no true voxel, the mask of
\* WM-hypointensities after the validity-volume step included, ends as a
\* skip: nothing is raised and nothing is written for it.
C7_EmptyMaskIsSkipped ==
    \A p \in DOMAIN outcome :
        (/\ outcome[p] # "pending"
         /\ \/ \A v \in Voxels : aseg_data[v] # subcortical_structures[p][1]
            \/ handed[p].given /\ handed[p].mask = {})
            => outcome[p] = "skipped"

C9_UnknownModeSkipsEveryStructure ==
    (/\ mode \notin {"marching_cubes", "dual_contouring"}
     /\ asegPresent /\ brainmaskPresent
     /\ spc # "start") =>
        /\ spc \in {"loop", "done"}
        /\ writes = <<>>
        /\ \A p \in DOMAIN outcome :
               /\ ~handed[p].given
               /\ p < pos =>
                      outcome[p] =
                          IF \E v \in Voxels :
                                 aseg_data[v] = subcortical_structures[p][1]
                          THEN "invalid_mode" ELSE "skipped"
               /\ p >= pos => outcome[p] = "pending"
        /\ spc = "done" => pos = Len(subcortical_structures) + 1

\* A call with an unknown mode ended after rejecting the mode for a
\* structure that has voxels.
C9_Witness ==
    /\ mode \notin {"marching_cubes", "dual_contouring"}
    /\ spc = "done"
    /\ \E p \in DOMAIN outcome : outcome[p] = "invalid_mode"

\* C10: one file per structure: at the end of a run every entry of the
\* structure table has been visited with its own label id, no two worklist
\* entries share an output path, and no path has been written twice.
C10_OneFilePerStructure ==
    spc = "done" =>
        /\ \A e \in 1 .. Len(StructureTable) :
               \E p \in DOMAIN outcome :
                   /\ subcortical_structures[p] = StructureTable[e]
                   /\ outcome[p] # "pending"
        /\ \A p, q \in DOMAIN outcome :
               p # q => subcortical_structures[p][2] # subcortical_structures[q][2]
        /\ \A a, b \in 1 .. Len(writes) : a # b => writes[a][2] # writes[b][2]

====
